---- MODULE Spec2Model ----
(***************************************************************************)
(* A model of the four blockchain scripts of src/intro:                    *)
(*   with_cryptographic_proof.py  ("pow": hash() recomputed, proof of work)*)
(*   sufficient_balance.py        ("sufficient_balance": stored hash field *)
(*                                 and a solvency check)                   *)
(*   with_transaction.py          ("with_transaction": stored hash field)  *)
(*   basic_ex.py                  ("basic_ex": stored hash field, data)    *)
(* Block indices are Python's (0-based): blocks[i] of the code is          *)
(* blocks[i + 1] here.                                                     *)
(*                                                                         *)
(* SHA-256 is idealised as a collision-free digest: a digest is a record   *)
(* that carries the hashed content (body), so two digests are equal iff    *)
(* the hashed contents are. The number of leading '0' hex characters of a  *)
(* proof-of-work digest (lead) is a fixed pseudo-random function of the    *)
(* content. String literals that stand where a digest may stand ("0", "")  *)
(* are records of kind "literal".                                          *)
(***************************************************************************)
EXTENDS Integers, Sequences, FiniteSets, TLC

VARIABLES variant, blocks, now, result, tampered, before, calls

\* before: the chain as the last call of add_block found it
\* calls: the local state of each add_block call that runs step by step
vars == <<variant, blocks, now, result, tampered, before, calls>>

(***************************************************************************)
(* Bounds of the model.                                                    *)
(***************************************************************************)
\* the longest chain explored, genesis included
MaxBlocks == 3
\* the longest generated batch of transactions
MaxBatch == 2
\* the largest reading of the clock
MaxTime == 1

(***************************************************************************)
(* Values.                                                                 *)
(***************************************************************************)
Lit(s) == [kind |-> "literal", text |-> s]

Transaction(from_address, to_address, amount) ==
  [from_address |-> from_address, to_address |-> to_address, amount |-> amount]

Addresses == {"System", "Alice", "Bob", "Charlie", "Dave", "Eve", "Mallory"}

\* the clock readings a call of time() may return, the clock never going back
Times(t) == {u \in {t, t + 1} : u <= MaxTime}

RECURSIVE SumAmounts(_)
SumAmounts(txs) ==
  IF txs = <<>> THEN 0 ELSE Head(txs).amount + SumAmounts(Tail(txs))

(***************************************************************************)
(* with_cryptographic_proof.py                                             *)
(***************************************************************************)
Block(transactions, previous_hash, t) ==
  [timestamp |-> t, transactions |-> transactions,
   previous_hash |-> previous_hash, proof |-> 0]

\* the period of the idealised digest's leading-zero pattern
PuzzlePeriod == 16

\* the number of times 2 divides r, for r in 1 .. PuzzlePeriod - 1
RECURSIVE Nu2(_)
Nu2(r) == IF r % 2 = 1 THEN 0 ELSE 1 + Nu2(r \div 2)

\* the leading '0' hex characters of the digest of a block: a deterministic
\* function of every hashed field, the proof included
LeadingZeros(block) ==
  LET prev == IF block.previous_hash.kind = "literal" THEN 0
              ELSE block.previous_hash.lead
      seed == block.timestamp + SumAmounts(block.transactions)
                + Len(block.transactions) + prev
      r    == (seed + 5 * block.proof) % PuzzlePeriod
  IN IF r = 0 THEN 8 ELSE 2 * Nu2(r)

\* Block.hash(): the digest of timestamp, transactions, previous_hash, proof
hash(block) == [kind |-> "sha256", lead |-> LeadingZeros(block), body |-> block]

\* hash()[:difficulty] == "0" * difficulty
MeetsDifficulty(block, difficulty) == LeadingZeros(block) >= difficulty

\* a slip: "if" for "while", the nonce is raised once at most
SearchOnce(block, difficulty) ==
  IF MeetsDifficulty(block, difficulty) THEN block.proof ELSE block.proof + 1

RECURSIVE Search(_, _)
Search(block, difficulty) ==
  IF MeetsDifficulty(block, difficulty) THEN block.proof
  ELSE Search([block EXCEPT !.proof = @ + 1], difficulty)

\* a slip: the search goes on from the proof the block came with
ProofOfWorkWithoutReset(block, difficulty) == Search(block, difficulty)

\* proof_of_work(block, difficulty): the nonce found, searching from 0
proof_of_work(block, difficulty) ==
  Search([block EXCEPT !.proof = 0], difficulty)

\* the block as proof_of_work(block, difficulty) leaves it: block.proof is
\* assigned in place and is the value returned
proof_of_work_effect(block, difficulty) ==
  [block EXCEPT !.proof = proof_of_work(block, difficulty)]

GenesisDifficulty == 4
AddDifficulty == 7

GenesisTransactions ==
  << Transaction("System", "Alice", 100), Transaction("System", "Bob", 100),
     Transaction("System", "Charlie", 100) >>

genesis_block(t) ==
  LET b == Block(GenesisTransactions, Lit("0"), t)
  IN [b EXCEPT !.proof = proof_of_work(b, GenesisDifficulty)]

\* balances.get(address, 0)
Get(balances, address) ==
  IF address \in DOMAIN balances THEN balances[address] ELSE 0

\* a slip: the debit line is missing
TransferCreditOnly(balances, tx) ==
  LET b1 == IF tx.from_address \in DOMAIN balances THEN balances
            ELSE balances @@ (tx.from_address :> 0)
      b2 == IF tx.to_address \in DOMAIN b1 THEN b1
            ELSE b1 @@ (tx.to_address :> 0)
  IN [b2 EXCEPT ![tx.to_address] = @ + tx.amount]

\* a slip: the sender is credited and the receiver debited
TransferSwapped(balances, tx) ==
  LET b1 == IF tx.from_address \in DOMAIN balances THEN balances
            ELSE balances @@ (tx.from_address :> 0)
      b2 == IF tx.to_address \in DOMAIN b1 THEN b1
            ELSE b1 @@ (tx.to_address :> 0)
      b3 == [b2 EXCEPT ![tx.from_address] = @ + tx.amount]
  IN [b3 EXCEPT ![tx.to_address] = @ - tx.amount]

\* the loop body of calculate_balances: create both entries, debit, credit
Transfer(balances, tx) ==
  LET b1 == IF tx.from_address \in DOMAIN balances THEN balances
            ELSE balances @@ (tx.from_address :> 0)
      b2 == IF tx.to_address \in DOMAIN b1 THEN b1
            ELSE b1 @@ (tx.to_address :> 0)
      b3 == [b2 EXCEPT ![tx.from_address] = @ - tx.amount]
  IN [b3 EXCEPT ![tx.to_address] = @ + tx.amount]

RECURSIVE TransferAll(_, _)
TransferAll(balances, txs) ==
  IF txs = <<>> THEN balances
  ELSE TransferAll(Transfer(balances, Head(txs)), Tail(txs))

RECURSIVE CommittedBalances(_, _)
CommittedBalances(balances, bs) ==
  IF bs = <<>> THEN balances
  ELSE CommittedBalances(TransferAll(balances, Head(bs).transactions), Tail(bs))

\* calculate_balances(pending_transactions); <<>> stands for None and []
calculate_balances(bs, pending_transactions) ==
  TransferAll(CommittedBalances(<<>>, bs), pending_transactions)

\* a slip: the senders are checked with no exemption for 'System'
RECURSIVE SystemCheckedToo(_, _)
SystemCheckedToo(balances, txs) ==
  IF txs = <<>> THEN TRUE
  ELSE IF Get(balances, Head(txs).from_address) < Head(txs).amount
       THEN FALSE
       ELSE SystemCheckedToo(balances, Tail(txs))

\* a slip: no sender is checked
NoSenderChecked(balances, txs) == TRUE

\* the loop of are_transactions_valid over the batch, balances being final
RECURSIVE EverySenderCovered(_, _)
EverySenderCovered(balances, txs) ==
  IF txs = <<>> THEN TRUE
  ELSE IF Head(txs).from_address = "System"
       THEN EverySenderCovered(balances, Tail(txs))
       ELSE IF Get(balances, Head(txs).from_address) < Head(txs).amount
            THEN FALSE
            ELSE EverySenderCovered(balances, Tail(txs))

are_transactions_valid(bs, transactions) ==
  EverySenderCovered(calculate_balances(bs, transactions), transactions)

\* a slip: the link is taken from the first block instead of the last
TipHashOfGenesis(bs) == hash(bs[1])

\* self.blocks[-1].hash()
TipHash(bs) == hash(bs[Len(bs)])

\* the block add_block builds and seals
NewBlock(bs, transactions, t) ==
  LET b == Block(transactions, TipHash(bs), t)
  IN [b EXCEPT !.proof = proof_of_work(b, AddDifficulty)]

\* a slip: the new block is written over the last one
AddBlockOverTip(bs, transactions, t) ==
  IF ~are_transactions_valid(bs, transactions) THEN bs
  ELSE [bs EXCEPT ![Len(bs)] = NewBlock(bs, transactions, t)]

\* a slip: the batch is appended whatever the check said
AddBlockUnchecked(bs, transactions, t) == Append(bs, NewBlock(bs, transactions, t))

\* add_block(transactions): the chain after the call
add_block(bs, transactions, t) ==
  IF ~are_transactions_valid(bs, transactions) THEN bs
  ELSE Append(bs, NewBlock(bs, transactions, t))

\* the first index at which is_chain_valid returns False, -1 when it returns True
NoDefect == 0 - 1

RECURSIVE Walk(_, _)
Walk(bs, i) ==
  IF i >= Len(bs) THEN NoDefect
  ELSE LET current == bs[i + 1]
           previous == bs[i]
       IN IF hash(current) /= hash(current) THEN i
          ELSE IF current.previous_hash /= hash(previous) THEN i
          ELSE Walk(bs, i + 1)

FirstDefect(bs) == Walk(bs, 1)

is_chain_valid(bs) == FirstDefect(bs) = NoDefect

(***************************************************************************)
(* sufficient_balance.py and with_transaction.py: Block and calculate_hash *)
(* and is_chain_valid are the same code in both files.                     *)
(***************************************************************************)
StoredBlock(index, previous_hash, timestamp, transactions, h) ==
  [index |-> index, previous_hash |-> previous_hash, timestamp |-> timestamp,
   transactions |-> transactions, hash |-> h]

create_genesis_block(t) == StoredBlock(0, Lit("0"), t, <<>>, Lit(""))

\* a slip: transaction_data is left out of the hashed value
CalculateHashWithoutData(index, previous_hash, timestamp, transactions) ==
  [kind |-> "sha256",
   body |-> [index |-> index, previous_hash |-> previous_hash,
             timestamp |-> timestamp, data |-> <<>>]]

\* sha256 of str(index) + str(previous_hash) + str(timestamp) + transaction_data
calculate_hash(index, previous_hash, timestamp, transactions) ==
  [kind |-> "sha256",
   body |-> [index |-> index, previous_hash |-> previous_hash,
             timestamp |-> timestamp, data |-> transactions]]

\* the block the stored-hash add_block builds
StoredNewBlock(bs, transactions, t) ==
  LET index == Len(bs)
      previous_hash == bs[index].hash
  IN StoredBlock(index, previous_hash, t, transactions,
                 calculate_hash(index, previous_hash, t, transactions))

\* add_block of with_transaction.py: no check of the batch
wt_add_block(bs, transactions, t) == Append(bs, StoredNewBlock(bs, transactions, t))

\* the pending loop body of sufficient_balance.py's calculate_balances
SbPendingTransfer(balances, tx) ==
  IF tx.from_address = "System"
  THEN LET b1 == IF tx.to_address \in DOMAIN balances THEN balances
                 ELSE balances @@ (tx.to_address :> 0)
       IN [b1 EXCEPT ![tx.to_address] = @ + tx.amount]
  ELSE Transfer(balances, tx)

RECURSIVE SbPendingAll(_, _)
SbPendingAll(balances, txs) ==
  IF txs = <<>> THEN balances
  ELSE SbPendingAll(SbPendingTransfer(balances, Head(txs)), Tail(txs))

sb_calculate_balances(bs, pending_transactions) ==
  SbPendingAll(CommittedBalances(<<>>, bs), pending_transactions)

sb_are_transactions_valid(bs, transactions) ==
  EverySenderCovered(sb_calculate_balances(bs, transactions), transactions)

\* add_block of sufficient_balance.py
sb_add_block(bs, transactions, t) ==
  IF ~sb_are_transactions_valid(bs, transactions) THEN bs
  ELSE Append(bs, StoredNewBlock(bs, transactions, t))

RECURSIVE StoredWalk(_, _)
StoredWalk(bs, i) ==
  IF i >= Len(bs) THEN NoDefect
  ELSE LET current_block == bs[i + 1]
           previous_block == bs[i]
       IN IF current_block.hash /=
               calculate_hash(current_block.index, current_block.previous_hash,
                              current_block.timestamp, current_block.transactions)
          THEN i
          ELSE IF current_block.previous_hash /= previous_block.hash THEN i
          ELSE StoredWalk(bs, i + 1)

sb_is_chain_valid(bs) == StoredWalk(bs, 1) = NoDefect

(***************************************************************************)
(* basic_ex.py                                                             *)
(***************************************************************************)
BasicBlock(index, previous_hash, timestamp, data, h) ==
  [index |-> index, previous_hash |-> previous_hash, timestamp |-> timestamp,
   data |-> data, hash |-> h]

bx_create_genesis_block(t) == BasicBlock(0, Lit("0"), t, "Genesis Block", Lit(""))

\* sha256 of str(index) + str(previous_hash) + str(timestamp) + str(data)
bx_calculate_hash(index, previous_hash, timestamp, data) ==
  [kind |-> "sha256",
   body |-> [index |-> index, previous_hash |-> previous_hash,
             timestamp |-> timestamp, data |-> data]]

bx_add_block(bs, data, t) ==
  LET index == Len(bs)
      previous_hash == bs[index].hash
  IN Append(bs, BasicBlock(index, previous_hash, t, data,
                           bx_calculate_hash(index, previous_hash, t, data)))

RECURSIVE BasicWalk(_, _)
BasicWalk(bs, i) ==
  IF i >= Len(bs) THEN NoDefect
  ELSE LET current_block == bs[i + 1]
           previous_block == bs[i]
       IN IF current_block.hash /=
               bx_calculate_hash(current_block.index, current_block.previous_hash,
                                 current_block.timestamp, current_block.data)
          THEN i
          ELSE IF current_block.previous_hash /= previous_block.hash THEN i
          ELSE BasicWalk(bs, i + 1)

bx_is_chain_valid(bs) == BasicWalk(bs, 1) = NoDefect

(***************************************************************************)
(* Inputs.                                                                 *)
(***************************************************************************)
FundingBatch == GenesisTransactions
DemoBlock1 == << Transaction("Alice", "Bob", 50), Transaction("Bob", "Charlie", 25) >>
DemoBlock2 == << Transaction("Charlie", "Alice", 10), Transaction("Alice", "Bob", 5) >>
DaveToEve == << Transaction("Dave", "Eve", 10) >>

DemoBatches == {FundingBatch, DemoBlock1, DemoBlock2, DaveToEve}

\* a sender sends all it was minted
AliceSendsAll == << Transaction("Alice", "Bob", 100) >>

\* coins minted after genesis
MintToDave == << Transaction("System", "Dave", 10) >>

TxPool ==
  { Transaction("Dave", "Eve", 10), Transaction("Alice", "Dave", 20),
    Transaction("Alice", "Bob", 60) }

SeqsUpTo(S, n) == UNION {[1 .. k -> S] : k \in 0 .. n}

Batches == DemoBatches \cup {AliceSendsAll, MintToDave} \cup SeqsUpTo(TxPool, MaxBatch)

DemoData == {"Block 1", "Block 2", "Block 3"}

\* the amount the scripts write when they tamper with a transaction
TamperedAmount == 1000

NoTamper == [index |-> NoDefect, kind |-> "none"]

\* the callers of add_block when two calls run on the same chain
Callers == {"first", "second"}

\* the local variable new_block of a call that has not built it yet
NoBlock == [kind |-> "none"]

\* a call of add_block that has not begun
NoCall == [pc |-> "idle", transactions |-> <<>>, new_block |-> NoBlock, seen |-> 0]

NoCalls == [c \in Callers |-> NoCall]

(***************************************************************************)
(* Actions.                                                                *)
(***************************************************************************)
PowInit ==
  /\ variant = "pow"
  /\ blocks = << genesis_block(0) >>
  /\ now = 0
  /\ result = "none"
  /\ tampered = NoTamper
  /\ before = blocks
  /\ calls = NoCalls

\* blockchain.add_block(transactions) of with_cryptographic_proof.py
PowAddBlock(S) ==
  /\ variant = "pow"
  /\ Len(blocks) < MaxBlocks
  /\ \E transactions \in S :
       IF are_transactions_valid(blocks, transactions)
       THEN \E t \in Times(now) :
              /\ blocks' = add_block(blocks, transactions, t)
              /\ now' = t
              /\ result' = "accepted"
       ELSE /\ blocks' = add_block(blocks, transactions, now)
            /\ now' = now
            /\ result' = "rejected"
  /\ before' = blocks
  /\ UNCHANGED <<variant, tampered, calls>>

SbInit ==
  /\ variant = "sufficient_balance"
  /\ blocks = << create_genesis_block(0) >>
  /\ now = 0
  /\ result = "none"
  /\ tampered = NoTamper
  /\ before = blocks
  /\ calls = NoCalls

WtInit ==
  /\ variant = "with_transaction"
  /\ blocks = << create_genesis_block(0) >>
  /\ now = 0
  /\ result = "none"
  /\ tampered = NoTamper
  /\ before = blocks
  /\ calls = NoCalls

BxInit ==
  /\ variant = "basic_ex"
  /\ blocks = << bx_create_genesis_block(0) >>
  /\ now = 0
  /\ result = "none"
  /\ tampered = NoTamper
  /\ before = blocks
  /\ calls = NoCalls

\* blockchain.add_block(transactions) of sufficient_balance.py
SbAddBlock(S) ==
  /\ variant = "sufficient_balance"
  /\ Len(blocks) < MaxBlocks
  /\ \E transactions \in S :
       IF sb_are_transactions_valid(blocks, transactions)
       THEN \E t \in Times(now) :
              /\ blocks' = sb_add_block(blocks, transactions, t)
              /\ now' = t
              /\ result' = "accepted"
       ELSE /\ blocks' = sb_add_block(blocks, transactions, now)
            /\ now' = now
            /\ result' = "rejected"
  /\ before' = blocks
  /\ UNCHANGED <<variant, tampered, calls>>

\* blockchain.add_block(transactions) of with_transaction.py
WtAddBlock(S) ==
  /\ variant = "with_transaction"
  /\ Len(blocks) < MaxBlocks
  /\ \E transactions \in S, t \in Times(now) :
       /\ blocks' = wt_add_block(blocks, transactions, t)
       /\ now' = t
  /\ result' = "accepted"
  /\ before' = blocks
  /\ UNCHANGED <<variant, tampered, calls>>

\* blockchain.add_block(data) of basic_ex.py
BxAddBlock ==
  /\ variant = "basic_ex"
  /\ Len(blocks) < MaxBlocks
  /\ \E data \in DemoData, t \in Times(now) :
       /\ blocks' = bx_add_block(blocks, data, t)
       /\ now' = t
  /\ result' = "accepted"
  /\ before' = blocks
  /\ UNCHANGED <<variant, tampered, calls>>

(***************************************************************************)
(* Tampering: a field of a committed block is changed from outside, as the *)
(* scripts do after building their chain. One tampering per behaviour.     *)
(***************************************************************************)
RemoveAt(s, j) == SubSeq(s, 1, j - 1) \o SubSeq(s, j + 1, Len(s))

\* blockchain.blocks[k].transactions[j].amount = 1000
TamperAmount ==
  /\ variant /= "basic_ex"
  /\ tampered = NoTamper
  /\ \E k \in 1 .. Len(blocks) :
       \E j \in 1 .. Len(blocks[k].transactions) :
         /\ blocks[k].transactions[j].amount /= TamperedAmount
         /\ blocks' = [blocks EXCEPT ![k].transactions[j].amount = TamperedAmount]
         /\ tampered' = [index |-> k - 1, kind |-> "amount"]
  /\ UNCHANGED <<variant, now, result, before, calls>>

\* blockchain.blocks[k].transactions[j].from_address (or to_address) = "Mallory"
TamperAddress ==
  /\ variant /= "basic_ex"
  /\ tampered = NoTamper
  /\ \E k \in 1 .. Len(blocks) :
       \E j \in 1 .. Len(blocks[k].transactions) :
         /\ \/ blocks' = [blocks EXCEPT ![k].transactions[j].from_address = "Mallory"]
            \/ blocks' = [blocks EXCEPT ![k].transactions[j].to_address = "Mallory"]
         /\ tampered' = [index |-> k - 1, kind |-> "address"]
  /\ UNCHANGED <<variant, now, result, before, calls>>

\* blockchain.blocks[k].transactions.append(Transaction("System", "Mallory", 1000))
TamperAppend ==
  /\ variant /= "basic_ex"
  /\ tampered = NoTamper
  /\ \E k \in 1 .. Len(blocks) :
       /\ blocks' = [blocks EXCEPT ![k].transactions =
                       Append(@, Transaction("System", "Mallory", TamperedAmount))]
       /\ tampered' = [index |-> k - 1, kind |-> "append"]
  /\ UNCHANGED <<variant, now, result, before, calls>>

\* del blockchain.blocks[k].transactions[j]
TamperRemove ==
  /\ variant /= "basic_ex"
  /\ tampered = NoTamper
  /\ \E k \in 1 .. Len(blocks) :
       \E j \in 1 .. Len(blocks[k].transactions) :
         /\ blocks' = [blocks EXCEPT ![k].transactions = RemoveAt(@, j)]
         /\ tampered' = [index |-> k - 1, kind |-> "remove"]
  /\ UNCHANGED <<variant, now, result, before, calls>>

\* blockchain.blocks[k].data = "Fake Block"
TamperData ==
  /\ variant = "basic_ex"
  /\ tampered = NoTamper
  /\ \E k \in 1 .. Len(blocks) :
       /\ blocks' = [blocks EXCEPT ![k].data = "Fake Block"]
       /\ tampered' = [index |-> k - 1, kind |-> "data"]
  /\ UNCHANGED <<variant, now, result, before, calls>>

\* blockchain.blocks[k].proof = another number, no solution of the puzzle
TamperProof ==
  /\ variant = "pow"
  /\ tampered = NoTamper
  /\ \E k \in 1 .. Len(blocks) :
       \E proof \in {blocks[k].proof + 1, blocks[k].proof + 2} :
         /\ ~MeetsDifficulty([blocks[k] EXCEPT !.proof = proof],
                             IF k = 1 THEN GenesisDifficulty ELSE AddDifficulty)
         /\ blocks' = [blocks EXCEPT ![k].proof = proof]
         /\ tampered' = [index |-> k - 1, kind |-> "proof"]
  /\ UNCHANGED <<variant, now, result, before, calls>>

\* add_block(transactions), lines 68-70: the solvency check and the early return
AddBlockCheck(c) ==
  /\ variant = "pow"
  /\ calls[c].pc = "idle"
  /\ Len(blocks) < MaxBlocks
  /\ \E transactions \in DemoBatches :
       IF are_transactions_valid(blocks, transactions)
       THEN /\ calls' = [calls EXCEPT ![c].pc = "checked",
                                      ![c].transactions = transactions]
            /\ UNCHANGED result
       ELSE /\ calls' = [calls EXCEPT ![c].pc = "done",
                                      ![c].transactions = transactions]
            /\ result' = "rejected"
  /\ before' = blocks
  /\ UNCHANGED <<variant, blocks, now, tampered>>

\* add_block, lines 71-72: the tip's digest is read and the block is built
AddBlockReadTip(c) ==
  /\ calls[c].pc = "checked"
  /\ \E t \in Times(now) :
       /\ calls' = [calls EXCEPT
                      ![c].pc = "read",
                      ![c].new_block = Block(calls[c].transactions, TipHash(blocks), t),
                      ![c].seen = Len(blocks)]
       /\ now' = t
  /\ UNCHANGED <<variant, blocks, result, tampered, before>>

\* a slip: the call goes on without searching for the nonce
AddBlockSealSkipped(c) ==
  /\ calls[c].pc = "read"
  /\ calls' = [calls EXCEPT ![c].pc = "sealed"]
  /\ UNCHANGED <<variant, blocks, now, result, tampered, before>>

\* add_block, line 75: new_block.proof = self.proof_of_work(new_block, difficulty=7)
AddBlockSeal(c) ==
  /\ calls[c].pc = "read"
  /\ calls' = [calls EXCEPT
                 ![c].pc = "sealed",
                 ![c].new_block = proof_of_work_effect(calls[c].new_block, AddDifficulty)]
  /\ UNCHANGED <<variant, blocks, now, result, tampered, before>>

\* add_block, line 79: self.blocks.append(new_block)
AddBlockAppend(c) ==
  /\ calls[c].pc = "sealed"
  /\ blocks' = Append(blocks, calls[c].new_block)
  /\ calls' = [calls EXCEPT ![c].pc = "done"]
  /\ result' = "accepted"
  /\ UNCHANGED <<variant, now, tampered, before>>

(***************************************************************************)
(* Specifications.                                                         *)
(***************************************************************************)
\* the two scripts that keep a ledger, fed with every batch of Batches
Init == PowInit \/ SbInit

Next == PowAddBlock(Batches) \/ SbAddBlock(Batches)

Spec == Init /\ [][Next]_vars

\* the four scripts, fed as their demonstrations feed them, then tampered with
InitTamper == PowInit \/ SbInit \/ WtInit \/ BxInit

NextTamper ==
  \/ PowAddBlock(DemoBatches)
  \/ SbAddBlock(DemoBatches)
  \/ WtAddBlock(DemoBatches)
  \/ BxAddBlock
  \/ TamperAmount
  \/ TamperAddress
  \/ TamperAppend
  \/ TamperRemove
  \/ TamperData
  \/ TamperProof

SpecTamper == InitTamper /\ [][NextTamper]_vars

\* two add_block calls on one chain of with_cryptographic_proof.py, run as
\* steps that interleave: the code takes no lock
InitConc == PowInit

NextConc ==
  \/ \E c \in Callers : AddBlockCheck(c)
  \/ \E c \in Callers : AddBlockReadTip(c)
  \/ \E c \in Callers : AddBlockSeal(c)
  \/ \E c \in Callers : AddBlockAppend(c)

SpecConc == InitConc /\ [][NextConc]_vars

\* is_chain_valid() of the script that runs
ChainValid ==
  CASE variant = "pow" -> is_chain_valid(blocks)
    [] variant = "basic_ex" -> bx_is_chain_valid(blocks)
    [] OTHER -> sb_is_chain_valid(blocks)

\* the index at which is_chain_valid() of the script that runs returns False
ChainDefect ==
  CASE variant = "pow" -> FirstDefect(blocks)
    [] variant = "basic_ex" -> BasicWalk(blocks, 1)
    [] OTHER -> StoredWalk(blocks, 1)

\* calculate_balances() of the script that runs, on the chain bs
BalancesOf(bs) ==
  IF variant = "pow" THEN calculate_balances(bs, <<>>)
  ELSE sb_calculate_balances(bs, <<>>)

Balances == BalancesOf(blocks)

TypeOK ==
  /\ variant \in {"pow", "sufficient_balance", "with_transaction", "basic_ex"}
  /\ Len(blocks) \in 1 .. MaxBlocks
  /\ now \in 0 .. MaxTime
  /\ result \in {"none", "accepted", "rejected"}
  /\ \A c \in Callers : calls[c].pc \in {"idle", "checked", "read", "sealed", "done"}

(***************************************************************************)
(* Helpers of the properties.                                              *)
(***************************************************************************)
\* the transactions of each block, in chain order
TxsOf(bs) == [i \in 1 .. Len(bs) |-> bs[i].transactions]

RECURSIVE Flatten(_)
Flatten(batches) ==
  IF batches = <<>> THEN <<>> ELSE Head(batches) \o Flatten(Tail(batches))

\* every committed transaction, in chain order
Committed == Flatten(TxsOf(blocks))

RECURSIVE Received(_, _)
Received(address, txs) ==
  IF txs = <<>> THEN 0
  ELSE (IF Head(txs).to_address = address THEN Head(txs).amount ELSE 0)
         + Received(address, Tail(txs))

RECURSIVE Sent(_, _)
Sent(address, txs) ==
  IF txs = <<>> THEN 0
  ELSE (IF Head(txs).from_address = address THEN Head(txs).amount ELSE 0)
         + Sent(address, Tail(txs))

\* replaying txs in order on balances, every sender other than System holds
\* the amount just before its transaction is applied
RECURSIVE IncrementallySolvent(_, _)
IncrementallySolvent(balances, txs) ==
  IF txs = <<>> THEN TRUE
  ELSE /\ \/ Head(txs).from_address = "System"
          \/ Get(balances, Head(txs).from_address) >= Head(txs).amount
       /\ IncrementallySolvent(Transfer(balances, Head(txs)), Tail(txs))

\* the balances committed by the first n blocks
BalancesOfPrefix(n) == BalancesOf(SubSeq(blocks, 1, n))

\* are_transactions_valid(transactions) of the script that runs
Valid(transactions) ==
  IF variant = "pow" THEN are_transactions_valid(blocks, transactions)
  ELSE sb_are_transactions_valid(blocks, transactions)

\* the chain add_block(transactions) of the script that runs would leave
AfterAddBlock(transactions) ==
  IF variant = "pow" THEN add_block(blocks, transactions, now)
  ELSE sb_add_block(blocks, transactions, now)

Ledger == variant \in {"pow", "sufficient_balance"}

(***************************************************************************)
(* Properties.                                                             *)
(***************************************************************************)
\* C1: from a fresh chain, after any add_block calls (accepted or rejected)
\* and with no field changed from outside, is_chain_valid() returns True.
C1_LinkIntegrity == tampered = NoTamper => ChainValid

C1_Witness ==
  /\ variant = "pow"
  /\ tampered = NoTamper
  /\ Len(blocks) >= 2
  /\ result = "rejected"
  /\ ChainValid

\* C2: after a transaction of the block add_block committed at index k is
\* changed, added or removed, the walk of is_chain_valid() first fails at
\* index k itself.
C2_DefectAtTamperedIndex ==
  (variant /= "basic_ex" /\ tampered.index >= 1) => ChainDefect = tampered.index

\* C3: in the proof-of-work script, changing the amount of a transaction of
\* the last block of a chain of at least two blocks makes is_chain_valid()
\* return False.
C3_TipTamperDetected ==
  ( /\ variant = "pow"
    /\ tampered.kind = "amount"
    /\ Len(blocks) >= 2
    /\ tampered.index = Len(blocks) - 1 ) => ~is_chain_valid(blocks)

\* C4: in the scripts that store the hash, changing the data or a transaction
\* of a block of index >= 1 (the last one included), the stored hash left as
\* it was, makes is_chain_valid() return False.
C4_StoredHashTamperDetected ==
  (variant /= "pow" /\ tampered.index >= 1) => ~ChainValid

C4_Witness ==
  /\ variant = "with_transaction"
  /\ tampered.kind = "amount"
  /\ Len(blocks) >= 3
  /\ tampered.index = Len(blocks) - 1
  /\ ~ChainValid

\* C5: a call of add_block whose batch the solvency check rejects returns
\* with the chain, every block of it and the balances as they were.
C5_RejectedBatchChangesNothing ==
  result = "rejected" =>
    /\ blocks = before
    /\ Len(blocks) = Len(before)
    /\ Balances = BalancesOf(before)

C5_Witness ==
  /\ result = "rejected"
  /\ Len(blocks) >= 2
  /\ Get(Balances, "Dave") = 0
  /\ ~Valid(DaveToEve)
  /\ AfterAddBlock(DaveToEve) = blocks

\* C6: no address other than System ever has a negative balance.
C6_NoOverdraft ==
  \A address \in Addresses \ {"System"} : Get(Balances, address) >= 0

C6_Witness ==
  /\ result = "rejected"
  /\ \E i \in 1 .. Len(Committed) : Committed[i].from_address /= "System"
  /\ Sent("Dave", Committed) > 0
  /\ Get(Balances, "Dave") < 100

\* C7: every batch add_block accepted is incrementally solvent on the
\* balances committed before it.
C7_AcceptedIsIncrementallySolvent ==
  Ledger =>
    \A i \in 2 .. Len(blocks) :
      IncrementallySolvent(BalancesOfPrefix(i - 1), blocks[i].transactions)

\* C8: add_block appends a block for every incrementally solvent batch.
C8_SolventIsAccepted ==
  Ledger =>
    \A transactions \in Batches :
      IncrementallySolvent(Balances, transactions)
        => Len(AfterAddBlock(transactions)) = Len(blocks) + 1

\* C9: the balance of every address other than System is what it received
\* less what it sent over the committed blocks; the scenario's two blocks are
\* accepted and give Alice 50, Bob 125, Charlie 125, then 55, 130, 115.
C9_BalancesAreReceivedLessSent ==
  /\ \A address \in Addresses \ {"System"} :
       Get(Balances, address)
         = Received(address, Committed) - Sent(address, Committed)
  /\ (variant = "pow" /\ Len(blocks) = 1) => Valid(DemoBlock1)
  /\ (variant = "pow" /\ TxsOf(blocks) = <<GenesisTransactions, DemoBlock1>>) =>
       /\ Get(Balances, "Alice") = 50
       /\ Get(Balances, "Bob") = 125
       /\ Get(Balances, "Charlie") = 125
       /\ Valid(DemoBlock2)
  /\ (variant = "pow"
        /\ TxsOf(blocks) = <<GenesisTransactions, DemoBlock1, DemoBlock2>>) =>
       /\ Get(Balances, "Alice") = 55
       /\ Get(Balances, "Bob") = 130
       /\ Get(Balances, "Charlie") = 115

C9_Witness ==
  /\ variant = "pow"
  /\ TxsOf(blocks) = <<GenesisTransactions, DemoBlock1, DemoBlock2>>
  /\ result = "accepted"

\* C10: the mapping calculate_balances returns, with or without a pending
\* batch, never holds a negative balance for System.
C10_SentinelNeverDebited ==
  Ledger =>
    /\ Get(Balances, "System") >= 0
    /\ \A transactions \in Batches :
         Get(IF variant = "pow" THEN calculate_balances(blocks, transactions)
             ELSE sb_calculate_balances(blocks, transactions), "System") >= 0
\* the blocks add_block may build next, before they are sealed
Candidates ==
  {Block(transactions, TipHash(blocks), t) : transactions \in Batches, t \in Times(now)}

\* the difficulties the script uses, and none
Difficulties == {0, GenesisDifficulty, AddDifficulty}

\* C11: when proof_of_work(block, difficulty) returns, the first difficulty
\* hex characters of block.hash() are '0' and block.proof is the nonce
\* returned; at difficulty 0 the nonce is 0 whatever the block holds.
C11_PuzzleValidity ==
  variant = "pow" =>
    \A block \in Candidates, difficulty \in Difficulties :
      LET nonce == proof_of_work(block, difficulty)
          sealed == proof_of_work_effect(block, difficulty)
      IN /\ hash(sealed).lead >= difficulty
         /\ sealed.proof = nonce
         /\ difficulty = 0 => nonce = 0

C11_Witness ==
  /\ variant = "pow"
  /\ Len(blocks) >= 2
  /\ \E block \in Candidates :
       /\ proof_of_work(block, AddDifficulty) > 1
       /\ proof_of_work(block, 0) = 0
\* C13: is_chain_valid() also checks the puzzle: when the digest of a block of
\* index > 0 (the last one included) does not meet the difficulty the block
\* was sealed with, here after its proof was changed, it returns False.
C13_UnsolvedPuzzleDetected ==
  ( /\ variant = "pow"
    /\ tampered.kind = "proof"
    /\ \E i \in 2 .. Len(blocks) : hash(blocks[i]).lead < AddDifficulty )
  => ~is_chain_valid(blocks)
SendersOf(txs) == {txs[i].from_address : i \in 1 .. Len(txs)}

ReceiversOf(txs) == {txs[i].to_address : i \in 1 .. Len(txs)}

\* the last call of add_block appended a block
LastCallAppended ==
  /\ Ledger
  /\ result = "accepted"
  /\ Len(blocks) = Len(before) + 1

\* the batch the last call of add_block committed
LastBatch == blocks[Len(blocks)].transactions

\* C14, as claimed: no sender of an accepted batch, System aside, has a larger
\* balance after the block is committed than before the batch.
C14_SenderBalanceNeverRises ==
  LastCallAppended =>
    \A address \in SendersOf(LastBatch) \ {"System"} :
      Get(Balances, address) <= Get(BalancesOf(before), address)

\* C14, amended: no sender of an accepted batch, System aside, that receives
\* nothing in that batch has a larger balance after the block is committed
\* than before the batch.
C14_PureSenderBalanceNeverRises ==
  LastCallAppended =>
    \A address \in (SendersOf(LastBatch) \ ReceiversOf(LastBatch)) \ {"System"} :
      Get(Balances, address) <= Get(BalancesOf(before), address)

C14_Witness ==
  /\ LastCallAppended
  /\ LastBatch = DemoBlock1
  /\ Get(Balances, "Alice") < Get(BalancesOf(before), "Alice")
  /\ Get(Balances, "Bob") > Get(BalancesOf(before), "Bob")
\* C15: a batch whose transactions are all sent by 'System' is accepted and
\* appended by add_block, whatever the balance of 'System'.
C15_SentinelBatchAccepted ==
  Ledger =>
    \A transactions \in Batches :
      SendersOf(transactions) \subseteq {"System"} =>
        /\ Valid(transactions)
        /\ AfterAddBlock(transactions) /= blocks
        /\ Len(AfterAddBlock(transactions)) = Len(blocks) + 1
        /\ AfterAddBlock(transactions)[Len(blocks) + 1].transactions = transactions

C15_Witness ==
  /\ LastCallAppended
  /\ Len(blocks) >= 3
  /\ LastBatch = MintToDave
  /\ Get(BalancesOf(before), "System") < 0
\* the genesis block the script that runs builds
Genesis ==
  IF variant = "pow" THEN genesis_block(0) ELSE create_genesis_block(0)

\* C16: a call of add_block leaves blocks as it was or adds one block at the
\* end; the blocks it found keep their places and fields, the length never
\* goes down, and blocks[0] is the one genesis block, of previous_hash "0".
C16_AppendOnly ==
  Ledger =>
    /\ Len(blocks) >= Len(before)
    /\ \/ blocks = before
       \/ /\ Len(blocks) = Len(before) + 1
          /\ SubSeq(blocks, 1, Len(before)) = before
    /\ \A i \in 1 .. Len(before) :
         /\ blocks[i].transactions = before[i].transactions
         /\ blocks[i].previous_hash = before[i].previous_hash
         /\ blocks[i].timestamp = before[i].timestamp
         /\ variant = "pow" => blocks[i].proof = before[i].proof
    /\ blocks[1] = Genesis
    /\ blocks[1].previous_hash = Lit("0")
    /\ \A i \in 2 .. Len(blocks) : blocks[i].previous_hash /= Lit("0")

C16_Witness ==
  /\ variant = "pow"
  /\ result = "accepted"
  /\ Len(before) = 2
  /\ Len(blocks) = 3
  /\ SubSeq(blocks, 1, 2) = before
  /\ blocks[3] /= blocks[2]
\* blocks that come to proof_of_work with a proof already set: the blocks of
\* the chain, their proof raised by one
Resealed == {[blocks[i] EXCEPT !.proof = @ + 1] : i \in 1 .. Len(blocks)}

\* C17: proof_of_work(block, difficulty) starts again from 0 and returns the
\* least nonce whose digest meets the difficulty; it changes the proof of the
\* block and no other field.
C17_LeastNonce ==
  variant = "pow" =>
    \A block \in Candidates \cup Resealed, difficulty \in Difficulties :
      LET nonce == proof_of_work(block, difficulty)
          after == proof_of_work_effect(block, difficulty)
      IN /\ nonce >= 0
         /\ hash([block EXCEPT !.proof = nonce]).lead >= difficulty
         /\ \A smaller \in 0 .. nonce - 1 :
              hash([block EXCEPT !.proof = smaller]).lead < difficulty
         /\ after.timestamp = block.timestamp
         /\ after.transactions = block.transactions
         /\ after.previous_hash = block.previous_hash
         /\ DOMAIN after = DOMAIN block

C17_Witness ==
  /\ variant = "pow"
  /\ Len(blocks) >= 2
  /\ \E block \in Resealed :
       /\ block.proof > 3
       /\ proof_of_work(block, AddDifficulty) = block.proof - 1
       /\ proof_of_work(block, GenesisDifficulty) < block.proof - 1
\* C18: in the scripts that store the hash, with a block appended after
\* genesis, changing the data or the transactions of the genesis block makes
\* is_chain_valid() return False.
C18_GenesisTamperDetected ==
  ( /\ variant /= "pow"
    /\ tampered.index = 0
    /\ Len(blocks) >= 2 ) => ~ChainValid
\* sum(balances.values())
RECURSIVE SumOver(_, _)
SumOver(balances, addresses) ==
  IF addresses = {} THEN 0
  ELSE LET address == CHOOSE a \in addresses : TRUE
       IN balances[address] + SumOver(balances, addresses \ {address})

SumValues(balances) == SumOver(balances, DOMAIN balances)

\* C20: the values of the mapping calculate_balances returns in the
\* proof-of-work script, 'System' included, add up to 0, with or without a
\* pending batch.
C20_ValueConservation ==
  variant = "pow" =>
    \A pending_transactions \in Batches :
      SumValues(calculate_balances(blocks, pending_transactions)) = 0

C20_Witness ==
  /\ variant = "pow"
  /\ result = "accepted"
  /\ Len(blocks) >= 3
  /\ Get(Balances, "System") < 0
  /\ Get(Balances, "Dave") > 0
  /\ SumValues(calculate_balances(blocks, DemoBlock1)) = 0
\* C12: in every state add_block calls reach, the genesis block's digest has
\* 4 leading zeros and the digest of every block appended by add_block has
\* 7: no block whose puzzle is unsolved is a member of blocks, also while
\* calls hold blocks they have not sealed yet.
C12_OnlySealedBlocksInChain ==
  variant = "pow" =>
    /\ MeetsDifficulty(blocks[1], GenesisDifficulty)
    /\ \A i \in 2 .. Len(blocks) : MeetsDifficulty(blocks[i], AddDifficulty)

C12_Witness ==
  /\ variant = "pow"
  /\ Len(blocks) >= 2
  /\ \E c \in Callers :
       /\ calls[c].pc = "read"
       /\ ~MeetsDifficulty(calls[c].new_block, AddDifficulty)

\* C19: when two add_block calls run on one chain as steps that interleave,
\* no append happens between a call's reading of the tip and its own append:
\* each block's previous_hash is the digest of the block before it and
\* is_chain_valid() returns True.
C19_AddBlockAtomic ==
  /\ \A c \in Callers :
       calls[c].pc \in {"read", "sealed"} => calls[c].seen = Len(blocks)
  /\ \A i \in 2 .. Len(blocks) : blocks[i].previous_hash = hash(blocks[i - 1])
  /\ is_chain_valid(blocks)
====
